---- MODULE Spec2Model ----
(***************************************************************************)
(* speed_overlay (src/main.py): a speed readout computed from a GPX track  *)
(* is written as one ASS subtitle cue per video frame and burnt into the   *)
(* video by ffmpeg.                                                        *)
(*                                                                         *)
(* Conventions of the model                                                *)
(*   - datetimes and timedeltas are integers of microseconds, the          *)
(*     resolution of Python's datetime; GPX sample times are whole seconds.*)
(*   - a Python float is an IEEE-754 double with its 53 bit significand;   *)
(*     every float operation is computed exactly on bit sequences and then *)
(*     rounded to nearest, ties to even, as the hardware does.             *)
(*   - GPX samples lie on one meridian; lat is a position in metres, so    *)
(*     the geodesic distance of two samples is the difference of their lat.*)
(***************************************************************************)
EXTENDS Integers, Sequences, FiniteSets, TLC

VARIABLES
    pc,               \* position of main()
    args,             \* parse_arguments(): units, min_points, video_date, time_delta
    video_info,       \* get_video_info() result
    gpx_points,       \* load_gpx() result
    duration,         \* get_video_duration() result: None or a float
    fps,              \* get_video_fps() result, an integral frame rate
    video_start_time, \* resolved start of the video, microseconds
    interval,         \* generate_ass: 1 / fps, a float
    current,          \* generate_ass: running clock, microseconds
    frame,            \* generate_ass: loop counter
    events,           \* generate_ass: the Dialogue cues emitted so far
    ass_file,         \* overlay.ass: [open, disk, whole]
    muxer,            \* None, or what overlay.ass was when ffmpeg was started
    printed,          \* messages printed to stdout
    failed,           \* the collaborators' calls that failed in this run
    error,            \* None, or the exception that ended the run
    sp_in,            \* get_speed under test: its arguments
    sp_out            \* get_speed under test: None before the call, then results

vars == <<pc, args, video_info, gpx_points, duration, fps, video_start_time,
          interval, current, frame, events, ass_file, muxer, printed,
          failed, error, sp_in, sp_out>>

\* Python's None, and a raised exception, as values of their own.
None == [type |-> "NoneType"]

Raise(name, line) == [exception |-> name, line |-> line]

(***************************************************************************)
(* Naturals as bit sequences, most significant bit first.                  *)
(***************************************************************************)
\* The low w bits of n, as a bit sequence of width w.
FixedBits(n, w) == [i \in 1..w |-> (n \div (2 ^ (w - i))) % 2]

\* Bit sequences are handled ChunkBits bits at a time, which keeps every
\* intermediate product below 2^31 for factors and divisors below 2^20.
ChunkBits == 10

\* n < 2^30 in binary, without leading zeros.
BitsOfNat(n) ==
    FixedBits(n, CHOOSE w \in 0..30 : n < 2 ^ w /\ (w = 0 \/ n >= 2 ^ (w - 1)))

\* The value of a bit sequence (below 2^31).
RECURSIVE NatOfBits(_)
NatOfBits(b) ==
    IF Len(b) = 0 THEN 0
    ELSE IF Len(b) = 1 THEN b[1]
    ELSE LET h == Len(b) \div 2
         IN  NatOfBits(SubSeq(b, 1, h)) * (2 ^ (Len(b) - h))
                 + NatOfBits(SubSeq(b, h + 1, Len(b)))

Zeros(n) == [i \in 1..n |-> 0]

\* b without its leading zeros.
Strip(b) ==
    LET ones == {i \in 1..Len(b) : b[i] = 1}
    IN  IF ones = {} THEN <<>>
        ELSE SubSeq(b, CHOOSE i \in ones : \A j \in ones : i <= j, Len(b))

\* b padded with leading zeros to a multiple of ChunkBits bits.
PadToChunks(b) == Zeros((ChunkBits - (Len(b) % ChunkBits)) % ChunkBits) \o b

\* b * k for a natural k < 2^20: schoolbook multiplication from the last chunk.
RECURSIVE MulSmallFrom(_, _, _, _, _)
MulSmallFrom(b, k, i, carry, acc) ==
    IF i = 0 THEN BitsOfNat(carry) \o acc
    ELSE LET t == NatOfBits(SubSeq(b, i - ChunkBits + 1, i)) * k + carry
         IN  MulSmallFrom(b, k, i - ChunkBits, t \div (2 ^ ChunkBits),
                          FixedBits(t % (2 ^ ChunkBits), ChunkBits) \o acc)

MulSmall(b, k) ==
    LET p == PadToChunks(b) IN Strip(MulSmallFrom(p, k, Len(p), 0, <<>>))

\* Long division of the bit sequence num (whole chunks) by d < 2^20; the last
\* bit appended is "sticky": 1 iff a remainder is left.
RECURSIVE LongDiv(_, _, _, _, _)
LongDiv(num, d, i, rem, acc) ==
    IF i > Len(num) THEN Append(acc, IF rem = 0 THEN 0 ELSE 1)
    ELSE LET r == rem * (2 ^ ChunkBits) + NatOfBits(SubSeq(num, i, i + ChunkBits - 1))
         IN  LongDiv(num, d, i + ChunkBits, r % d, acc \o FixedBits(r \div d, ChunkBits))

\* b + 1 on a fixed width; all ones carries out into a longer sequence.
AddOne(b) ==
    LET zs == {i \in 1..Len(b) : b[i] = 0}
    IN  IF zs = {} THEN <<1>> \o Zeros(Len(b))
        ELSE LET p == CHOOSE i \in zs : \A j \in zs : j <= i
             IN  [i \in 1..Len(b) |-> IF i < p THEN b[i] ELSE IF i = p THEN 1 ELSE 0]

(***************************************************************************)
(* IEEE-754 binary64, positive values and zero: [hi, lo, e] is the float   *)
(* (hi * 2^LoBits + lo) * 2^e, its 53 bit significand held in two halves.  *)
(***************************************************************************)
MantissaBits == 53

LoBits == MantissaBits \div 2

FloatZero == [hi |-> 0, lo |-> 0, e |-> 0]

Float(m, e) ==
    [ hi |-> NatOfBits(SubSeq(m, 1, MantissaBits - LoBits)),
      lo |-> NatOfBits(SubSeq(m, MantissaBits - LoBits + 1, MantissaBits)),
      e  |-> e ]

\* The significand of a float other than zero: MantissaBits bits, the first a 1.
Mantissa(x) == FixedBits(x.hi, MantissaBits - LoBits) \o FixedBits(x.lo, LoBits)

\* The double nearest to b * 2^e (b without leading zeros), ties to even.
RoundBits(b, e) ==
    IF b = <<>> THEN FloatZero
    ELSE IF Len(b) <= MantissaBits
    THEN Float(b \o Zeros(MantissaBits - Len(b)), e - (MantissaBits - Len(b)))
    ELSE LET keep   == SubSeq(b, 1, MantissaBits)
             guard  == b[MantissaBits + 1]
             sticky == \E i \in (MantissaBits + 2)..Len(b) : b[i] = 1
             up     == guard = 1 /\ (sticky \/ keep[MantissaBits] = 1)
             e2     == e + (Len(b) - MantissaBits)
             inc    == AddOne(keep)
         IN  IF ~up THEN Float(keep, e2)
             ELSE IF Len(inc) > MantissaBits
                  THEN Float(SubSeq(inc, 1, MantissaBits), e2 + 1)
                  ELSE Float(inc, e2)

\* Python's n / d on two small ints (n >= 0, 0 < d < 2^20): the correctly
\* rounded quotient.
FloatDivInt(n, d) ==
    IF n = 0 THEN FloatZero
    ELSE LET s == MantissaBits + 2 + Len(BitsOfNat(d))
             q == LongDiv(PadToChunks(BitsOfNat(n) \o Zeros(s)), d, 1, 0, <<>>)
         IN  RoundBits(Strip(q), 0 - s - 1)

\* Python's k * x for an int 0 <= k < 2^20 and a float x: the exact product, rounded.
FloatMulInt(k, x) ==
    IF k = 0 \/ x = FloatZero THEN FloatZero
    ELSE RoundBits(MulSmall(Mantissa(x), k), x.e)

\* x < y on two floats.
FloatLess(x, y) ==
    IF y = FloatZero THEN FALSE
    ELSE IF x = FloatZero THEN TRUE
    ELSE \/ x.e < y.e
         \/ x.e = y.e /\ x.hi < y.hi
         \/ x.e = y.e /\ x.hi = y.hi /\ x.lo < y.lo

\* round(x) to an int, ties to even, for a float x >= 0.
FloatRoundToInt(x) ==
    IF x = FloatZero THEN 0
    ELSE IF x.e >= 0 THEN NatOfBits(Mantissa(x) \o Zeros(x.e))
    ELSE LET m      == Mantissa(x)
             n      == MantissaBits + x.e      \* bits before the binary point
             whole  == IF n >= 1 THEN NatOfBits(SubSeq(m, 1, n)) ELSE 0
             guard  == IF n >= 0 THEN m[n + 1] ELSE 0
             sticky == \/ n < 0
                       \/ \E i \in (n + 2)..MantissaBits : m[i] = 1
         IN  IF guard = 1 /\ (sticky \/ whole % 2 = 1) THEN whole + 1 ELSE whole

MICROS == 1000000

\* timedelta(seconds=x) in microseconds: the float seconds scaled to microseconds
\* in float arithmetic, then rounded half-even (datetime's accum).
TimedeltaOfSeconds(x) == FloatRoundToInt(FloatMulInt(MICROS, x))

\* int(x): truncation of a float x >= 0.
FloatToInt(x) ==
    IF x = FloatZero THEN 0
    ELSE IF x.e >= 0 THEN NatOfBits(Mantissa(x) \o Zeros(x.e))
    ELSE IF MantissaBits + x.e >= 1
         THEN NatOfBits(SubSeq(Mantissa(x), 1, MantissaBits + x.e))
    ELSE 0

\* x % 1 for a float x >= 0: the bits after the binary point, exact.
FloatFrac(x) ==
    IF x = FloatZero \/ x.e >= 0 THEN FloatZero
    ELSE IF MantissaBits + x.e < 0 THEN x
    ELSE RoundBits(Strip(SubSeq(Mantissa(x), MantissaBits + x.e + 1, MantissaBits)), x.e)

\* timedelta.total_seconds(): microseconds / 10**6 as a float.
TotalSeconds(us) == FloatDivInt(us, MICROS)

(***************************************************************************)
(* load_gpx: the samples of the file in file order, then a stable sort by  *)
(* time (list.sort is stable: an insertion sort gives the same list).      *)
(***************************************************************************)
Point(t, l) == [time |-> t, lat |-> l, lon |-> 0]

RECURSIVE InsertByTime(_, _)
InsertByTime(sorted, p) ==
    IF sorted = <<>> THEN <<p>>
    ELSE IF sorted[Len(sorted)].time <= p.time THEN Append(sorted, p)
    ELSE Append(InsertByTime(SubSeq(sorted, 1, Len(sorted) - 1), p), sorted[Len(sorted)])

RECURSIVE SortByTime(_)
SortByTime(points) ==
    IF points = <<>> THEN <<>>
    ELSE InsertByTime(SortByTime(SubSeq(points, 1, Len(points) - 1)), points[Len(points)])

load_gpx(gpx_file) == SortByTime(gpx_file)

(***************************************************************************)
(* get_speed, convert_speed and the cue text.                              *)
(* A speed is None or a rational [num, den] of km/h; the exception a       *)
(* division by zero raises is the value ZeroDivisionError.                 *)
(***************************************************************************)
AbsInt(x) == IF x < 0 THEN 0 - x ELSE x

geodesic(a, b) == AbsInt(a.lat - b.lat)

ZeroDivisionError == Raise("ZeroDivisionError", 100)

TrueDiv(a, b) == IF b = 0 THEN ZeroDivisionError ELSE [num |-> a, den |-> b]

\* x * 3.6
TimesKmh(x) == IF x = ZeroDivisionError THEN x ELSE [num |-> 18 * x.num, den |-> 5 * x.den]

nearby_points(points, target_time, time_window) ==
    SelectSeq(points, LAMBDA p :
        AbsInt(p.time * MICROS - target_time) <= time_window * MICROS)

RECURSIVE total_distance(_)
total_distance(nearby) ==
    IF Len(nearby) < 2 THEN 0
    ELSE geodesic(nearby[1], nearby[2]) + total_distance(Tail(nearby))

RECURSIVE total_time(_)
total_time(nearby) ==
    IF Len(nearby) < 2 THEN 0
    ELSE (nearby[2].time - nearby[1].time) + total_time(Tail(nearby))

get_speed_no_zero_check(points, target_time, time_window, min_points) ==
    LET nearby == nearby_points(points, target_time, time_window)
    IN  IF Len(nearby) < min_points THEN None
        ELSE TimesKmh(TrueDiv(total_distance(nearby), total_time(nearby)))

get_speed_off_by_one(points, target_time, time_window, min_points) ==
    LET nearby == nearby_points(points, target_time, time_window)
    IN  IF Len(nearby) <= min_points THEN None
        ELSE IF total_time(nearby) = 0 THEN None
        ELSE TimesKmh(TrueDiv(total_distance(nearby), total_time(nearby)))

get_speed(points, target_time, time_window, min_points) ==
    LET nearby == nearby_points(points, target_time, time_window)
    IN  IF Len(nearby) < min_points THEN None
        ELSE IF total_time(nearby) = 0 THEN None
        ELSE TimesKmh(TrueDiv(total_distance(nearby), total_time(nearby)))

\* "if not speed" in place of "if speed is None": a speed of 0 is falsy.
convert_speed_falsy(speed, units) ==
    IF speed = None \/ speed.num = 0 THEN None
    ELSE IF units = "mph" THEN [num |-> speed.num * 621371, den |-> speed.den * MICROS]
    ELSE speed

convert_speed(speed, units) ==
    IF speed = None THEN None
    ELSE IF units = "mph" THEN [num |-> speed.num * 621371, den |-> speed.den * MICROS]
    ELSE speed

\* n / d rounded to an integer, ties to even (n >= 0, d > 0).
RoundDiv(n, d) ==
    LET q == n \div d
        r == n % d
    IN  IF 2 * r > d \/ (2 * r = d /\ q % 2 = 1) THEN q + 1 ELSE q

\* f"{speed:.1f}" in tenths: 10 * num / den rounded, computed without overflow.
Tenths(speed) ==
    10 * (speed.num \div speed.den) + RoundDiv(10 * (speed.num % speed.den), speed.den)

NA == <<"Speed: N/A">>

cue_text(speed, units) ==
    IF speed # None THEN <<"Speed: ", Tenths(speed), units>> ELSE NA

\* format_ass_timestamp(seconds) for a float seconds >= 0: <<h, m, s, cs>>.
format_ass_timestamp(seconds) ==
    LET whole == FloatToInt(seconds)
    IN  << whole \div 3600,
           (whole % 3600) \div 60,
           whole % 60,
           FloatToInt(FloatMulInt(100, FloatFrac(seconds))) >>

(***************************************************************************)
(* The inputs of a run.                                                    *)
(***************************************************************************)
Units == {"km/h", "mph"}

MaxMinPoints == 2

\* --video_date: absent, an ISO date (its time in seconds), or a string that
\* datetime.fromisoformat rejects.
VideoDates == {None, [valid |-> TRUE, time |-> 10], [valid |-> FALSE, time |-> 0]}

TimeDeltas == {0 - 5, 0}

\* The GPX files: samples in file order.
GpxFiles ==
    { <<>>,
      <<Point(0, 0)>>,
      <<Point(0, 0), Point(5, 0)>>,
      <<Point(0, 0), Point(0, 25)>>,
      <<Point(5, 25), Point(0, 0)>>,
      <<Point(0, 0), Point(20, 25)>>,
      <<Point(10, 50), Point(0, 0), Point(5, 25)>> }

\* ffprobe's format=duration, in units of 1 / DurationDen seconds.
DurationDen == 2

MaxDuration == 2

\* ffprobe's r_frame_rate "n/1".
FpsChoices == {1, 2, 30, 49}

DefaultFps == 30

TIME_WINDOW == 10

Rate(n) == [hz |-> n]

(***************************************************************************)
(* main(), line by line.                                                   *)
(***************************************************************************)
Init ==
    /\ pc = "get_video_info"
    /\ args \in [units : Units, min_points : 1..MaxMinPoints,
                 video_date : VideoDates, time_delta : TimeDeltas]
    /\ video_info = None
    /\ gpx_points = None
    /\ duration = None
    /\ fps = None
    /\ video_start_time = None
    /\ interval = None
    /\ current = None
    /\ frame = None
    /\ events = <<>>
    /\ ass_file = [open |-> FALSE, disk |-> 0, whole |-> 0]
    /\ muxer = None
    /\ printed = {}
    /\ failed = {}
    /\ error = None
    /\ sp_in = None
    /\ sp_out = None

\* The run ends with an uncaught exception; steps: the collaborator calls that failed.
Abort(steps, exc) ==
    /\ pc' = "aborted"
    /\ error' = exc
    /\ failed' = failed \cup steps

\* A variant of line 191 that goes on without the metadata when the probe fails.
GetVideoInfo_swallow ==
    /\ pc = "get_video_info"
    /\ \/ /\ video_info' = [width |-> 1920, height |-> 1080]
          /\ UNCHANGED failed
       \/ /\ video_info' = None
          /\ failed' = failed \cup {"get_video_info"}
    /\ pc' = "load_gpx"
    /\ UNCHANGED <<args, gpx_points, duration, fps, video_start_time, interval,
                   current, frame, events, ass_file, muxer, printed, error,
                   sp_in, sp_out>>

\* line 191: check_output raises when ffprobe fails; nothing catches it.
GetVideoInfo ==
    /\ pc = "get_video_info"
    /\ \/ /\ video_info' = [width |-> 1920, height |-> 1080]
          /\ pc' = "load_gpx"
          /\ UNCHANGED <<failed, error>>
       \/ /\ Abort({"get_video_info"}, Raise("CalledProcessError", 22))
          /\ UNCHANGED video_info
    /\ UNCHANGED <<args, gpx_points, duration, fps, video_start_time, interval,
                   current, frame, events, ass_file, muxer, printed,
                   sp_in, sp_out>>

\* line 193: gpxpy raises on a malformed file; an empty track is no error.
LoadGpx ==
    /\ pc = "load_gpx"
    /\ \/ /\ \E gpx_file \in GpxFiles : gpx_points' = load_gpx(gpx_file)
          /\ pc' = "get_video_duration"
          /\ UNCHANGED <<failed, error>>
       \/ /\ Abort({"load_gpx"}, Raise("GPXXMLSyntaxException", 75))
          /\ UNCHANGED gpx_points
    /\ UNCHANGED <<args, video_info, duration, fps, video_start_time, interval,
                   current, frame, events, ass_file, muxer, printed,
                   sp_in, sp_out>>

\* lines 196, 164-173: a failed probe is caught, reported, and None returned.
GetVideoDuration ==
    /\ pc = "get_video_duration"
    /\ \/ /\ \E d \in 0..MaxDuration : duration' = FloatDivInt(d, DurationDen)
          /\ UNCHANGED <<failed, printed>>
       \/ /\ duration' = None
          /\ printed' = printed \cup {"ERROR: Could not get video duration"}
          /\ failed' = failed \cup {"get_video_duration"}
    /\ pc' = "get_video_fps"
    /\ UNCHANGED <<args, video_info, gpx_points, fps, video_start_time, interval,
                   current, frame, events, ass_file, muxer, error, sp_in, sp_out>>

\* A variant of lines 184-186 that lets the exception of a failed probe go up,
\* as get_video_info does.
GetVideoFps_raise ==
    /\ pc = "get_video_fps"
    /\ \/ /\ \E n \in FpsChoices : fps' = Rate(n)
          /\ pc' = "resolve_start"
          /\ UNCHANGED <<failed, error>>
       \/ /\ Abort({"get_video_fps"}, Raise("CalledProcessError", 180))
          /\ UNCHANGED fps
    /\ UNCHANGED <<args, video_info, gpx_points, duration, video_start_time,
                   interval, current, frame, events, ass_file, muxer, printed,
                   sp_in, sp_out>>

\* lines 197, 176-186: a failed probe is caught, reported, and 30.0 returned.
GetVideoFps ==
    /\ pc = "get_video_fps"
    /\ \/ /\ \E n \in FpsChoices : fps' = Rate(n)
          /\ UNCHANGED <<failed, printed>>
       \/ /\ fps' = Rate(DefaultFps)
          /\ printed' = printed \cup {"ERROR: Could not get video fps"}
          /\ failed' = failed \cup {"get_video_fps"}
    /\ pc' = "resolve_start"
    /\ UNCHANGED <<args, video_info, gpx_points, duration, video_start_time,
                   interval, current, frame, events, ass_file, muxer, error,
                   sp_in, sp_out>>

\* lines 199-203: the start of the video, from --video_date or the first sample.
ResolveStart ==
    /\ pc = "resolve_start"
    /\ IF args.video_date # None
       THEN IF args.video_date.valid
            THEN /\ video_start_time' =
                        (args.video_date.time + args.time_delta) * MICROS
                 /\ pc' = "debug_prints"
                 /\ UNCHANGED <<failed, error>>
            ELSE /\ Abort({}, Raise("ValueError", 200))
                 /\ UNCHANGED video_start_time
       ELSE IF gpx_points = <<>>
            THEN /\ Abort({}, Raise("IndexError", 202))
                 /\ UNCHANGED video_start_time
            ELSE /\ video_start_time' =
                        (gpx_points[1].time + args.time_delta) * MICROS
                 /\ pc' = "debug_prints"
                 /\ UNCHANGED <<failed, error>>
    /\ UNCHANGED <<args, video_info, gpx_points, duration, fps, interval,
                   current, frame, events, ass_file, muxer, printed,
                   sp_in, sp_out>>

\* lines 205-207: the f-strings are built whether or not --debug is given, and
\* f"{duration:.2f}" raises TypeError on None.
DebugPrints ==
    /\ pc = "debug_prints"
    /\ IF duration = None
       THEN Abort({}, Raise("TypeError", 206))
       ELSE pc' = "generate_ass" /\ UNCHANGED <<failed, error>>
    /\ UNCHANGED <<args, video_info, gpx_points, duration, fps, video_start_time,
                   interval, current, frame, events, ass_file, muxer, printed,
                   sp_in, sp_out>>

\* lines 141-144.
GenerateAss ==
    /\ pc = "generate_ass"
    /\ events' = <<>>
    /\ interval' = FloatDivInt(1, fps.hz)
    /\ current' = video_start_time
    /\ frame' = 0
    /\ pc' = "frame_loop"
    /\ UNCHANGED <<args, video_info, gpx_points, duration, fps, video_start_time,
                   ass_file, muxer, printed, failed, error, sp_in, sp_out>>

\* line 145
loop_condition(fr, iv, dur) == FloatLess(FloatMulInt(fr, iv), dur)

\* line 159: current += timedelta(seconds=interval)
next_current(cur, iv) == cur + TimedeltaOfSeconds(iv)

\* A variant of line 154 that takes the end of a cue from the frame number
\* instead of the running clock.
cue_end_by_frame(points, start_time, cur, iv, fr, a) ==
    LET estimate == get_speed(points, cur, TIME_WINDOW, a.min_points)
        speed    == convert_speed(estimate, a.units)
    IN  [ start    |-> format_ass_timestamp(TotalSeconds(cur - start_time)),
          end      |-> format_ass_timestamp(FloatMulInt(fr + 1, iv)),
          text     |-> cue_text(speed, a.units),
          estimate |-> estimate,
          frame    |-> fr ]

\* lines 146-156: the cue of the frame at clock cur.  estimate and frame are not
\* part of the Dialogue line: they record what get_speed returned and the loop
\* counter.
cue(points, start_time, cur, iv, fr, a) ==
    LET estimate == get_speed(points, cur, TIME_WINDOW, a.min_points)
        speed    == convert_speed(estimate, a.units)
    IN  [ start    |-> format_ass_timestamp(TotalSeconds(cur - start_time)),
          end      |-> format_ass_timestamp(
                           TotalSeconds((cur - start_time) + TimedeltaOfSeconds(iv))),
          text     |-> cue_text(speed, a.units),
          estimate |-> estimate,
          frame    |-> fr ]

\* lines 145-159: one iteration of the frame loop.
FrameStep ==
    /\ pc = "frame_loop"
    /\ loop_condition(frame, interval, duration)
    /\ events' = Append(events,
                        cue(gpx_points, video_start_time, current, interval, frame, args))
    /\ frame' = frame + 1
    /\ current' = next_current(current, interval)
    /\ UNCHANGED <<pc, args, video_info, gpx_points, duration, fps,
                   video_start_time, interval, ass_file, muxer, printed, failed,
                   error, sp_in, sp_out>>

\* lines 145, 161: the loop ends and the document is returned.
FrameLoopExit ==
    /\ pc = "frame_loop"
    /\ ~loop_condition(frame, interval, duration)
    /\ pc' = "write_ass"
    /\ UNCHANGED <<args, video_info, gpx_points, duration, fps, video_start_time,
                   interval, current, frame, events, ass_file, muxer, printed,
                   failed, error, sp_in, sp_out>>

\* The document: the header, then one line per cue.
DocumentLines == 1 + Len(events)

\* lines 215-216: open(ass_path, 'w') and f.write(ass_content). The file object
\* is buffered: until a flush or the close, the document is in the buffer or on
\* disk depending on its size in bytes against the buffer's.
WriteAss ==
    /\ pc = "write_ass"
    /\ \E on_disk \in {0, DocumentLines} :
          ass_file' = [open |-> TRUE, disk |-> on_disk, whole |-> DocumentLines]
    /\ pc' = "ffmpeg"
    /\ UNCHANGED <<args, video_info, gpx_points, duration, fps, video_start_time,
                   interval, current, frame, events, muxer, printed, failed,
                   error, sp_in, sp_out>>

\* line 242, inside the with block of line 215: ffmpeg reads overlay.ass as it
\* is now. check=True raises on a non-zero exit, and leaving the with block,
\* either way, closes the file.
RunFfmpeg ==
    /\ pc = "ffmpeg"
    /\ muxer' = ass_file
    /\ \/ /\ pc' = "close"
          /\ UNCHANGED <<ass_file, failed, error>>
       \/ /\ Abort({"ffmpeg"}, Raise("CalledProcessError", 242))
          /\ ass_file' = [ass_file EXCEPT !.open = FALSE, !.disk = ass_file.whole]
    /\ UNCHANGED <<args, video_info, gpx_points, duration, fps, video_start_time,
                   interval, current, frame, events, printed, sp_in, sp_out>>

\* the end of the with block, then line 244.
CloseAss ==
    /\ pc = "close"
    /\ ass_file' = [ass_file EXCEPT !.open = FALSE, !.disk = ass_file.whole]
    /\ printed' = printed \cup {"Done! Output saved"}
    /\ pc' = "done"
    /\ UNCHANGED <<args, video_info, gpx_points, duration, fps, video_start_time,
                   interval, current, frame, events, muxer, failed, error,
                   sp_in, sp_out>>

Next ==
    \/ GetVideoInfo
    \/ LoadGpx
    \/ GetVideoDuration
    \/ GetVideoFps
    \/ ResolveStart
    \/ DebugPrints
    \/ GenerateAss
    \/ FrameStep
    \/ FrameLoopExit
    \/ WriteAss
    \/ RunFfmpeg
    \/ CloseAss

Spec == Init /\ [][Next]_vars

(***************************************************************************)
(* get_speed and convert_speed on their own: every time-sorted track of up *)
(* to MaxSamples samples, every target time, window and min_points.        *)
(***************************************************************************)
MaxSamples == 3

MaxTime == 2

MaxWindow == 1

LatChoices == {0, 25}

Samples == {Point(t, l) : t \in 0..MaxTime, l \in LatChoices}

SortedTracks ==
    UNION { {t \in [1..n -> Samples] : \A i \in 1..(n - 1) : t[i].time <= t[i + 1].time}
            : n \in 0..MaxSamples }

InitSpeed ==
    /\ pc = "get_speed"
    /\ sp_in \in [points : SortedTracks,
                  target_time : {t * MICROS : t \in 0..MaxTime},
                  time_window : 0..MaxWindow,
                  min_points : 1..MaxMinPoints,
                  units : Units]
    /\ sp_out = None
    /\ args = None
    /\ video_info = None
    /\ gpx_points = None
    /\ duration = None
    /\ fps = None
    /\ video_start_time = None
    /\ interval = None
    /\ current = None
    /\ frame = None
    /\ events = <<>>
    /\ ass_file = [open |-> FALSE, disk |-> 0, whole |-> 0]
    /\ muxer = None
    /\ printed = {}
    /\ failed = {}
    /\ error = None

\* lines 85-100, called as generate_ass line 146 calls it.
CallGetSpeed ==
    /\ pc = "get_speed"
    /\ LET estimate == get_speed(sp_in.points, sp_in.target_time,
                                 sp_in.time_window, sp_in.min_points)
       IN  /\ sp_out' = [estimate |-> estimate]
           /\ pc' = IF estimate = ZeroDivisionError THEN "raised" ELSE "convert_speed"
    /\ UNCHANGED <<args, video_info, gpx_points, duration, fps, video_start_time,
                   interval, current, frame, events, ass_file, muxer, printed,
                   failed, error, sp_in>>

\* lines 147-151
CallConvertSpeed ==
    /\ pc = "convert_speed"
    /\ LET speed == convert_speed(sp_out.estimate, sp_in.units)
       IN  sp_out' = [estimate |-> sp_out.estimate,
                      speed    |-> speed,
                      text     |-> cue_text(speed, sp_in.units)]
    /\ pc' = "returned"
    /\ UNCHANGED <<args, video_info, gpx_points, duration, fps, video_start_time,
                   interval, current, frame, events, ass_file, muxer, printed,
                   failed, error, sp_in>>

NextSpeed == CallGetSpeed \/ CallConvertSpeed

SpecSpeed == InitSpeed /\ [][NextSpeed]_vars

(***************************************************************************)
(* The claims.                                                             *)
(***************************************************************************)
IsNumber(x) == x # None /\ x # ZeroDivisionError

\* num / den >= 0
NonNegative(x) == x.num * x.den >= 0

\* The in-window samples of the get_speed call under test.
SpNearby == nearby_points(sp_in.points, sp_in.target_time, sp_in.time_window)

\* C1, as stated: with at least min_points samples in the window get_speed
\* returns a number >= 0, with fewer it returns None.
C1_Original ==
    sp_out # None =>
        /\ Len(SpNearby) >= sp_in.min_points =>
              IsNumber(sp_out.estimate) /\ NonNegative(sp_out.estimate)
        /\ Len(SpNearby) < sp_in.min_points => sp_out.estimate = None

\* C1, amended: with at least min_points samples in the window whose summed
\* segment durations are not zero, get_speed returns a number >= 0; with fewer
\* than min_points samples, or a zero sum, it returns None.
C1_NumberOrNone ==
    sp_out # None =>
        /\ (Len(SpNearby) >= sp_in.min_points /\ total_time(SpNearby) # 0) =>
              IsNumber(sp_out.estimate) /\ NonNegative(sp_out.estimate)
        /\ (Len(SpNearby) < sp_in.min_points \/ total_time(SpNearby) = 0) =>
              sp_out.estimate = None

C1_Witness ==
    /\ sp_out # None
    /\ Len(SpNearby) >= sp_in.min_points
    /\ total_time(SpNearby) # 0
    /\ IsNumber(sp_out.estimate)
    /\ sp_out.estimate.num > 0

\* C2: get_speed never divides by zero: when the summed segment durations of the
\* in-window samples are zero it returns None and raises nothing.
C2_NoDivisionByZero ==
    sp_out # None =>
        /\ sp_out.estimate # ZeroDivisionError
        /\ total_time(SpNearby) = 0 => sp_out.estimate = None

\* Two or more in-window samples, enough for min_points, all at one timestamp.
C2_Witness ==
    /\ sp_out # None
    /\ Len(SpNearby) >= 2
    /\ Len(SpNearby) >= sp_in.min_points
    /\ total_time(SpNearby) = 0
    /\ sp_out.estimate = None

\* The frame loop has been entered (frame, current and interval are set).
InFrames ==
    \/ pc \in {"frame_loop", "write_ass", "ffmpeg", "close", "done"}
    \/ pc = "aborted" /\ muxer # None

\* C3: one cue per frame of the loop, in frame order, and each cue ends at the
\* timestamp the next one starts at.
C3_CuesContiguous ==
    InFrames =>
        /\ Len(events) = frame
        /\ \A i \in 1..Len(events) :
              /\ events[i].frame = i - 1
              /\ i < Len(events) => events[i].end = events[i + 1].start

\* Several cues, and a cue boundary that is not on a whole centisecond.
C3_Witness ==
    /\ pc = "write_ass"
    /\ Len(events) >= 4
    /\ fps = Rate(DefaultFps)
    /\ events[3].end = events[4].start
    /\ events[3].end # events[3].start

\* duration * DurationDen, an integer.
DurationUnits == FloatToInt(FloatMulInt(DurationDen, duration))

\* C4: the frame loop emits N frames with duration * fps <= N < duration * fps + 1.
C4_FrameCount ==
    pc = "write_ass" =>
        /\ DurationDen * Len(events) >= DurationUnits * fps.hz
        /\ DurationDen * Len(events) < DurationUnits * fps.hz + DurationDen

\* C5: the start offset of frame i is within one microsecond of i / fps.
C5_NoDrift ==
    pc = "frame_loop" =>
        AbsInt((current - video_start_time) * fps.hz - frame * MICROS) <= fps.hz

\* C6: a cue reads "Speed: N/A" exactly when get_speed returned None for its
\* frame, in both units; an estimate of 0 reads "Speed: 0.0 <unit>"; a track of
\* one sample with min_points = 2 gives N/A on every cue.
C6_NAOnlyWhenUnavailable ==
    \A i \in 1..Len(events) :
        /\ events[i].text = NA <=> events[i].estimate = None
        /\ (events[i].estimate # None /\ events[i].estimate.num = 0) =>
              events[i].text = <<"Speed: ", 0, args.units>>
        /\ (Len(gpx_points) = 1 /\ args.min_points = 2) => events[i].text = NA

\* One run with a cue of a stationary estimate, shown as 0.0 mph, and an N/A cue.
C6_Witness ==
    /\ args # None
    /\ args.units = "mph"
    /\ \E i \in 1..Len(events) :
          /\ events[i].estimate # None
          /\ events[i].estimate.num = 0
          /\ events[i].text = <<"Speed: ", 0, "mph">>
    /\ \E j \in 1..Len(events) : events[j].text = NA /\ events[j].estimate = None

\* C7: ffmpeg is started only in a run in which get_video_info, load_gpx and
\* get_video_duration all succeeded.
C7_MuxerOnlyAfterSuccess ==
    muxer # None =>
        failed \cap {"get_video_info", "load_gpx", "get_video_duration"} = {}

\* The duration probe failed and the run ended without ffmpeg.
C7_Witness ==
    /\ pc = "aborted"
    /\ "get_video_duration" \in failed
    /\ muxer = None

\* C8: a GPX file without samples ends the run before ffmpeg is started, with
\* or without --video_date.
C8_EmptyTrackAborts ==
    (pc \notin {"get_video_info", "load_gpx", "get_speed", "convert_speed",
                "returned", "raised"}
        /\ "load_gpx" \notin failed
        /\ gpx_points = <<>>)
    => muxer = None

\* C9: when get_video_fps fails after get_video_info succeeded, fps is 30, the
\* failure is printed, the run is not ended by it, and the cues are generated
\* at 30 frames per second.
C9_FpsFallback ==
    "get_video_fps" \in failed =>
        /\ "get_video_info" \notin failed
        /\ fps = Rate(DefaultFps)
        /\ "ERROR: Could not get video fps" \in printed
        /\ error # None => error.line \notin 176..186
        /\ InFrames => interval = FloatDivInt(1, DefaultFps)

\* The probe failed, and the run went on to cues and to ffmpeg.
C9_Witness ==
    /\ "get_video_fps" \in failed
    /\ pc = "done"
    /\ muxer # None
    /\ Len(events) = DefaultFps

\* C10: when ffmpeg is started overlay.ass is closed and holds the whole document.
C10_FileCompleteAtMux ==
    muxer # None => muxer.open = FALSE /\ muxer.disk = muxer.whole

====
